---------------------------- MODULE Spec2Model ----------------------------
(***************************************************************************)
(* Soundscapy batch processing engine                                      *)
(* (src/src/soundscapy/audio/processing_engine.py).                        *)
(*                                                                         *)
(* Two specifications share this module:                                   *)
(*   Spec      ProcessingEngine.process_directory: a thread pool of        *)
(*             max_workers workers running _process_file, and the engine   *)
(*             thread consuming as_completed; successive invocations on    *)
(*             the same directory and StateManager.                        *)
(*   SpecProc  PsychoacousticProcessor.process on one signal, one loop     *)
(*             iteration (one configured metric) per step; in the          *)
(*             two-channel parallel path the two pooled _process_channel   *)
(*             calls and the thread of process take their steps one by     *)
(*             one.                                                        *)
(* SpecFair and SpecProcFair add to them the scheduling of the threads,    *)
(* for the properties that say something eventually happens.               *)
(*   SpecPP    parallel_process                                            *)
(*             (src/src/soundscapy/audio/parallel_processing.py): the      *)
(*             submissions, the worker processes running                   *)
(*             load_analyse_binaural, and the as_completed loop.           *)
(***************************************************************************)
EXTENDS Integers, Sequences, FiniteSets, TLC

\* ------------------------------------------------------------- bounds
\* number of .wav entries of the largest directory listing
NumFiles == 2
\* number of metrics in config["metrics"]
NumMetrics == 3
\* largest channel count of a loaded signal
MaxChannels == 3
\* largest max_workers tried
MaxWorkers == 2
\* successive invocations of process_directory
MaxRuns == 2
\* most calls that raise while one signal is processed
MaxFaults == 2
\* metrics configured, and largest channel count, in the engine's runs
BatchMetrics == 2
BatchChannels == 2

VARIABLES
    \* ---- ProcessingEngine.process_directory
    listing,      \* os.listdir(directory_path)
    store,        \* StateManager: the set of file paths marked processed
    storeFaulty,  \* whether calls on the StateManager can raise
    force,        \* processor.force_reprocess
    maxWorkers,   \* self.max_workers
    enabled,      \* config["metrics"][m].get("enabled", True), m in config order
    run,          \* number of invocations of process_directory started
    phase,        \* "idle" | "running" | "returned"
    file_paths,   \* the list built at lines 135-139
    unit,         \* per file: "none" (not yet submitted), then its future:
                  \* "queued" | "check" | "work" | "finished" | "handled"
    outcome,      \* per future: what future.result() returns or raises
    engine,       \* the thread of process_directory: [pc, cur], pc "submit"
                  \* (lines 144-149) | "wait" | "mark" (the as_completed loop)
    results,      \* directory_results: file path -> FileAnalysisResults
    progress,     \* progress_tracker: [total, done]
    \* ---- call counters and history (observation only)
    fate,         \* per future: how its _process_file call went
    loads,        \* per future: calls of BinauralSignal.from_wav
    calcs,        \* per future: calls of metric.calculate
    storeErr,     \* per future: a StateManager call raised for it
    marks,        \* file paths mark_processed was called with in this run
    startStore,   \* store when this invocation started
    prev,         \* how the previous invocation ended
    \* ---- PsychoacousticProcessor.process
    pAudio,       \* audio_data: [file_path, channels]
    pParallel,    \* parallel
    pRaises,      \* the calls that raise for this signal
    pIdx,         \* position in config["metrics"].items()
    pFile,        \* file_results
    pCalls,       \* calls of metric.calculate so far
    pState,       \* "loop" | "returned"
    pTried,       \* the metric names get_metric was called with, in call order
    pMain,        \* where process is inside the with-block of line 58:
                  \* "none" | "submit_right" | "left_result" | "right_result"
                  \* | "exit" | "exit_exc"
    pChan,        \* per pooled _process_channel call: "none" (not submitted)
                  \* | "queued" | "running" | "done" | "raised"
    pMcr,         \* multi_channel_result inside the with-block
    \* ---- parallel_process (parallel_processing.py)
    ppN,          \* len(wav_files)
    ppWorkers,    \* the number of worker processes of the pool
    ppFail,       \* per file: the stage of load_analyse_binaural that raises,
                  \* "none" | "load" | "calibrate" | "metrics"
    ppInitial,    \* results_df as given: {} an empty table, {0} one with rows
    ppTable,      \* results_df, by what it was made of: the table given and
                  \* the results add_results was applied to and returned for
                  \* (i: the result of file i)
    ppFuture,     \* futures, in submission order:
                  \* "queued" | "running" | "done" | "raised"
    ppMain,       \* "idle" | "submit" | "collect" | "returned"
    ppHandled,    \* the futures as_completed has yielded and the loop handled
    ppBar         \* pbar: [total, n], n counting the update(1) calls

batchVars == <<listing, store, storeFaulty, force, maxWorkers, run, phase,
               file_paths, unit, outcome, engine, results, progress, fate,
               loads, calcs, storeErr, marks, startStore, prev>>
procVars == <<pAudio, pParallel, pRaises, pIdx, pFile, pCalls, pState,
              pTried, pMain, pChan, pMcr>>
ppVars == <<ppN, ppWorkers, ppFail, ppInitial, ppTable, ppFuture, ppMain,
            ppHandled, ppBar>>
vars == <<batchVars, enabled, procVars, ppVars>>

\* parallel_process is not being run
PPIdle ==
    /\ ppN = 0
    /\ ppWorkers = 1
    /\ ppFail = <<>>
    /\ ppInitial = {}
    /\ ppTable = {}
    /\ ppFuture = <<>>
    /\ ppMain = "idle"
    /\ ppHandled = {}
    /\ ppBar = [total |-> 0, n |-> 0]

\* ------------------------------------------------------- result model
\* FileAnalysisResults(file_path)
FileAnalysisResults(file_path) ==
    [file_path |-> file_path, metrics |-> <<>>, errors |-> <<>>]

\* FileAnalysisResults.add_error
AddError(fr, msg) == [fr EXCEPT !.errors = Append(@, msg)]

\* FileAnalysisResults.add_metric_result: metrics[name] = multi_channel_result
AddMetricResult(fr, name, mcr) ==
    [fr EXCEPT !.metrics = [n \in DOMAIN fr.metrics \cup {name} |->
                              IF n = name THEN mcr ELSE fr.metrics[n]]]

\* MultiChannelResult()
MultiChannelResult == <<>>

\* MultiChannelResult.add_channel_result: an insertion-ordered mapping
AddChannelResult(mcr, channel_name, result) ==
    IF \E j \in 1..Len(mcr) : mcr[j].name = channel_name
    THEN [j \in 1..Len(mcr) |->
            IF mcr[j].name = channel_name
            THEN [name |-> channel_name, result |-> result] ELSE mcr[j]]
    ELSE Append(mcr, [name |-> channel_name, result |-> result])

\* the channel labels of a MultiChannelResult, in insertion order
Labels(mcr) == [j \in 1..Len(mcr) |-> mcr[j].name]

\* ------------------------------------------- PsychoacousticProcessor
\* f"channel_{i + 1}"
ChannelName(i) == <<"channel_", i + 1>>
LeftName == <<"left">>
RightName == <<"right">>

\* the calls that can raise while a signal is processed
FaultPoints ==
    [metric : 1..NumMetrics, stage : {"get_metric", "configure"}, data : {0}]
    \cup [metric : 1..NumMetrics, stage : {"calculate"}, data : 0..(MaxChannels - 1)]

\* the sets of at most n of them
RECURSIVE FaultSetsUpTo(_)
FaultSetsUpTo(n) ==
    IF n = 0 THEN {{}}
    ELSE LET smaller == FaultSetsUpTo(n - 1)
         IN  smaller \cup {s \cup {p} : s \in smaller, p \in FaultPoints}

FaultSets == FaultSetsUpTo(MaxFaults)

Fault(m, stage, d) == [metric |-> m, stage |-> stage, data |-> d]

\* segment_signal cutting the signal into two segments
SegmentSignalInTwo(audio_data) == <<audio_data, audio_data>>

\* segment_signal: the whole signal is the single segment
SegmentSignal(audio_data) == <<audio_data>>

\* analyze_segment: metric.calculate(segment)
AnalyzeSegment(segment, metric, raises) ==
    IF Fault(metric, "calculate", segment) \in raises
    THEN [raised |-> TRUE, value |-> [channel |-> <<>>, metric |-> metric, data |-> segment]]
    ELSE [raised |-> FALSE, value |-> [channel |-> <<>>, metric |-> metric, data |-> segment]]

\* _process_channel: every segment is analysed, in order, until one raises;
\* the first segment's result is labelled with the channel name
ProcessChannel(metric, channel_data, channel_name, raises) ==
    LET segments == SegmentSignal(channel_data)
        res == [s \in 1..Len(segments) |-> AnalyzeSegment(segments[s], metric, raises)]
        bad == {s \in 1..Len(segments) : res[s].raised}
        firstBad == CHOOSE s \in bad : \A t \in bad : s <= t
    IN  IF bad # {}
        THEN [raised |-> TRUE, value |-> res[firstBad].value, calls |-> firstBad]
        ELSE [raised |-> FALSE,
              value |-> [res[1].value EXCEPT !.channel = channel_name],
              calls |-> Len(segments)]

\* lines 72-79: channels i..k-1 in index order; a raise leaves the loop
RECURSIVE SequentialChannels(_, _, _, _, _, _)
SequentialChannels(metric, i, k, mcr, calls, raises) ==
    IF i >= k
    THEN [raised |-> FALSE, mcr |-> mcr, calls |-> calls]
    ELSE LET r == ProcessChannel(metric, i, ChannelName(i), raises)
         IN  IF r.raised
             THEN [raised |-> TRUE, mcr |-> mcr, calls |-> calls + r.calls]
             ELSE SequentialChannels(metric, i + 1, k,
                                     AddChannelResult(mcr, ChannelName(i), r.value),
                                     calls + r.calls, raises)

\* lines 56-70: left (channel 0) and right (channel 1) are both submitted to
\* a pool of two and both run; future_left.result() is asked first, then
\* future_right.result(); the with block is left when both have finished
ParallelChannels(metric, mcr, raises) ==
    LET l == ProcessChannel(metric, 0, LeftName, raises)
        r == ProcessChannel(metric, 1, RightName, raises)
    IN  IF l.raised
        THEN [raised |-> TRUE, mcr |-> mcr, calls |-> l.calls + r.calls]
        ELSE IF r.raised
        THEN [raised |-> TRUE,
              mcr |-> AddChannelResult(mcr, LeftName, l.value),
              calls |-> l.calls + r.calls]
        ELSE [raised |-> FALSE,
              mcr |-> AddChannelResult(AddChannelResult(mcr, LeftName, l.value),
                                       RightName, r.value),
              calls |-> l.calls + r.calls]

\* line 56 without the test of the channel count
UsesParallelPathAnyChannels(parallel, channels) == parallel

\* line 56: the branch taken
UsesParallelPath(parallel, channels) == parallel /\ channels = 2

\* lines 54-79: the channels of one metric
ChannelsOf(metric, audio_data, parallel, raises) ==
    IF UsesParallelPath(parallel, audio_data.channels)
    THEN ParallelChannels(metric, MultiChannelResult, raises)
    ELSE SequentialChannels(metric, 0, audio_data.channels, MultiChannelResult, 0, raises)

\* line 50 without the test of the enabled flag
AttemptsAll(cfg, m) == TRUE

\* line 50: metric_config.get("enabled", True)
Attempts(cfg, m) == cfg[m]

\* lines 51-52: get_metric or configure raises
ResolveRaises(m, raises) ==
    Fault(m, "get_metric", 0) \in raises \/ Fault(m, "configure", 0) \in raises

\* lines 50-82: one iteration of the loop over config["metrics"].items()
MetricIteration(fr, m, cfg, audio_data, parallel, raises) ==
    IF ~Attempts(cfg, m)
    THEN [raised |-> FALSE, file_results |-> fr, calls |-> 0]
    ELSE IF ResolveRaises(m, raises)
    THEN [raised |-> TRUE, file_results |-> fr, calls |-> 0]
    ELSE LET c == ChannelsOf(m, audio_data, parallel, raises)
         IN  IF c.raised
             THEN [raised |-> TRUE, file_results |-> fr, calls |-> c.calls]
             ELSE [raised |-> FALSE,
                   file_results |-> AddMetricResult(fr, m, c.mcr),
                   calls |-> c.calls]

\* lines 86-88 returning a fresh FileAnalysisResults
OnProcessExceptionDiscards(fr) == FileAnalysisResults(fr.file_path)

\* lines 86-88: the except clause logs the error and returns file_results
OnProcessException(fr) == fr

\* lines 46-88: process, from metric m on
RECURSIVE ProcessFrom(_, _, _, _, _, _, _)
ProcessFrom(fr, m, calls, cfg, audio_data, parallel, raises) ==
    IF m > Len(cfg)
    THEN [file_results |-> fr, calls |-> calls, aborted |-> FALSE]
    ELSE LET it == MetricIteration(fr, m, cfg, audio_data, parallel, raises)
         IN  IF it.raised
             THEN [file_results |-> OnProcessException(it.file_results),
                   calls |-> calls + it.calls, aborted |-> TRUE]
             ELSE ProcessFrom(it.file_results, m + 1, calls + it.calls,
                              cfg, audio_data, parallel, raises)

\* PsychoacousticProcessor.process
Process(cfg, audio_data, parallel, raises) ==
    ProcessFrom(FileAnalysisResults(audio_data.file_path), 1, 0,
                cfg, audio_data, parallel, raises)


\* ------------------------------------------------------------ SpecProc
ProcPath == <<"d", "/", "a", ".", "w", "a", "v">>

\* line 58: ThreadPoolExecutor(max_workers=2)
ChannelPoolWorkers == 2

\* the two calls submitted at lines 59-64
Sides == {"left", "right"}
\* audio_data.left, audio_data.right
SideData(side) == IF side = "left" THEN 0 ELSE 1
SideName(side) == IF side = "left" THEN LeftName ELSE RightName
NoChannels == [side \in Sides |-> "none"]

\* the engine's variables while a single signal is processed
BatchIdle ==
    /\ listing = <<>>
    /\ store = {}
    /\ storeFaulty = FALSE
    /\ force = FALSE
    /\ maxWorkers = 1
    /\ run = 0
    /\ phase = "idle"
    /\ file_paths = <<>>
    /\ unit = <<>>
    /\ outcome = <<>>
    /\ engine = [pc |-> "idle", cur |-> 0]
    /\ results = <<>>
    /\ progress = [total |-> 0, done |-> 0]
    /\ fate = <<>>
    /\ loads = <<>>
    /\ calcs = <<>>
    /\ storeErr = <<>>
    /\ marks = {}
    /\ startStore = {}
    /\ prev = [valid |-> FALSE, fate |-> <<>>, store |-> {}, clean |-> TRUE]

\* process is entered (line 46) with any signal, flag, configuration and faults
ProcInit ==
    /\ BatchIdle
    /\ enabled \in [1..NumMetrics -> BOOLEAN]
    /\ pAudio \in [file_path : {ProcPath}, channels : 1..MaxChannels]
    /\ pParallel \in BOOLEAN
    /\ pRaises \in FaultSets
    /\ pIdx = 1
    /\ pFile = FileAnalysisResults(ProcPath)
    /\ pCalls = 0
    /\ pState = "loop"
    /\ pTried = <<>>
    /\ pMain = "none"
    /\ pChan = NoChannels
    /\ pMcr = MultiChannelResult
    /\ PPIdle

\* the iteration of metric m goes through the pool of line 58
TakesParallelSteps(m, cfg, audio_data, parallel, raises) ==
    /\ Attempts(cfg, m)
    /\ ~ResolveRaises(m, raises)
    /\ UsesParallelPath(parallel, audio_data.channels)

\* lines 49-82 and 86-88: the next configured metric, when it is disabled,
\* cannot be resolved or configured, or takes the sequential path
ProcMetric ==
    /\ pState = "loop"
    /\ pMain = "none"
    /\ pIdx <= Len(enabled)
    /\ ~TakesParallelSteps(pIdx, enabled, pAudio, pParallel, pRaises)
    /\ pTried' = IF Attempts(enabled, pIdx) THEN Append(pTried, pIdx) ELSE pTried
    /\ LET it == MetricIteration(pFile, pIdx, enabled, pAudio, pParallel, pRaises)
       IN  /\ pCalls' = pCalls + it.calls
           /\ IF it.raised
              THEN /\ pFile' = OnProcessException(it.file_results)
                   /\ pState' = "returned"
                   /\ pIdx' = pIdx
              ELSE /\ pFile' = it.file_results
                   /\ pState' = "loop"
                   /\ pIdx' = pIdx + 1
    /\ UNCHANGED <<batchVars, ppVars, enabled, pAudio, pParallel, pRaises,
                   pMain, pChan, pMcr>>

\* lines 50-61: the next configured metric, in the two-channel parallel
\* path: the metric is resolved and configured, the pool is created and the
\* _process_channel call of the left channel is submitted
ParSubmitLeft ==
    /\ pState = "loop"
    /\ pMain = "none"
    /\ pIdx <= Len(enabled)
    /\ TakesParallelSteps(pIdx, enabled, pAudio, pParallel, pRaises)
    /\ pTried' = Append(pTried, pIdx)
    /\ pMcr' = MultiChannelResult
    /\ pChan' = [NoChannels EXCEPT !["left"] = "queued"]
    /\ pMain' = "submit_right"
    /\ UNCHANGED <<batchVars, ppVars, enabled, pAudio, pParallel, pRaises, pIdx, pFile,
                   pCalls, pState>>

\* lines 62-64: the call of the right channel is submitted; the pool runs
\* the left one meanwhile
ParSubmitRight ==
    /\ pMain = "submit_right"
    /\ pChan["right"] = "none"
    /\ pChan' = [pChan EXCEPT !["right"] = "queued"]
    /\ pMain' = "left_result"
    /\ UNCHANGED <<batchVars, ppVars, enabled, pAudio, pParallel, pRaises, pIdx, pFile,
                   pCalls, pState, pTried, pMcr>>

\* a free worker of the pool of line 58 takes a submitted call
ChannelStart(side) ==
    /\ pChan[side] = "queued"
    /\ Cardinality({t \in Sides : pChan[t] = "running"}) < ChannelPoolWorkers
    /\ pChan' = [pChan EXCEPT ![side] = "running"]
    /\ UNCHANGED <<batchVars, ppVars, enabled, pAudio, pParallel, pRaises, pIdx, pFile,
                   pCalls, pState, pTried, pMain, pMcr>>

\* lines 90-103 on a pool worker: the call returns its result or raises
ChannelRun(side) ==
    /\ pChan[side] = "running"
    /\ LET c == ProcessChannel(pIdx, SideData(side), SideName(side), pRaises)
       IN  /\ pChan' = [pChan EXCEPT ![side] = IF c.raised THEN "raised" ELSE "done"]
           /\ pCalls' = pCalls + c.calls
    /\ UNCHANGED <<batchVars, ppVars, enabled, pAudio, pParallel, pRaises, pIdx, pFile,
                   pState, pTried, pMain, pMcr>>

\* lines 65-67 and 68-70: future.result() blocks until the call is over,
\* then returns its result, which is added, or raises its exception
JoinChannel(side) ==
    /\ pMain = (IF side = "left" THEN "left_result" ELSE "right_result")
    /\ pChan[side] \in {"done", "raised"}
    /\ IF pChan[side] = "raised"
       THEN /\ pMain' = "exit_exc"
            /\ UNCHANGED pMcr
       ELSE /\ pMcr' = AddChannelResult(pMcr, SideName(side),
                           ProcessChannel(pIdx, SideData(side), SideName(side),
                                          pRaises).value)
            /\ pMain' = IF side = "left" THEN "right_result" ELSE "exit"
    /\ UNCHANGED <<batchVars, ppVars, enabled, pAudio, pParallel, pRaises, pIdx, pFile,
                   pCalls, pState, pTried, pChan>>

\* line 58 leaving the with-block without waiting for the pool
PoolShutDownNoWait(chan) == TRUE

\* line 58: leaving the with-block is executor.shutdown(wait=True), which
\* returns when both calls are over
PoolShutDown(chan) == \A side \in Sides : chan[side] \in {"done", "raised"}

\* the with-block is left: normally, then lines 81-82 record the metric;
\* or by the exception of a call, then lines 86-88 return file_results
ParExit ==
    /\ pMain \in {"exit", "exit_exc"}
    /\ PoolShutDown(pChan)
    /\ IF pMain = "exit"
       THEN /\ pFile' = AddMetricResult(pFile, pIdx, pMcr)
            /\ pIdx' = pIdx + 1
            /\ pState' = "loop"
       ELSE /\ pFile' = OnProcessException(pFile)
            /\ pIdx' = pIdx
            /\ pState' = "returned"
    /\ pMain' = "none"
    /\ UNCHANGED <<batchVars, ppVars, enabled, pAudio, pParallel, pRaises, pCalls,
                   pTried, pChan, pMcr>>

\* line 84: return file_results
ProcReturn ==
    /\ pState = "loop"
    /\ pMain = "none"
    /\ pIdx > Len(enabled)
    /\ pState' = "returned"
    /\ UNCHANGED <<batchVars, ppVars, enabled, pAudio, pParallel, pRaises, pIdx, pFile,
                   pCalls, pTried, pMain, pChan, pMcr>>

ProcNext ==
    \/ ProcMetric
    \/ ParSubmitLeft
    \/ ParSubmitRight
    \/ \E side \in Sides : ChannelStart(side)
    \/ \E side \in Sides : ChannelRun(side)
    \/ \E side \in Sides : JoinChannel(side)
    \/ ParExit
    \/ ProcReturn

SpecProc == ProcInit /\ [][ProcNext]_vars

\* the thread of process and the two workers of the pool of line 58 are
\* scheduled: while one of them can take a step, one eventually does
SpecProcFair == SpecProc /\ WF_vars(ProcNext)

\* process returns, whatever the interleaving of the two pooled calls
ProcessTerminates == (pState = "loop") ~> (pState = "returned")


\* ---------------------------------------------------------------- Spec
\* directory_path
Dir == <<"d">>
WavSuffix == <<".", "w", "a", "v">>
Stems == <<"a", "b", "c", "e", "g">>
WavEntry(i) == <<Stems[i]>> \o WavSuffix
\* entries that are no .wav file
OtherEntries == << <<"n", ".", "t", "x", "t">>, <<"x", "w", "a", "v">>,
                   <<"a", ".", "w", "a", "v", ".", "b", "k">> >>

\* str.endswith comparing the suffix without its first character
EndsWithTail(s, suffix) ==
    /\ Len(s) >= Len(suffix) - 1
    /\ SubSeq(s, Len(s) - Len(suffix) + 2, Len(s)) = Tail(suffix)

\* str.endswith
EndsWith(s, suffix) ==
    /\ Len(s) >= Len(suffix)
    /\ SubSeq(s, Len(s) - Len(suffix) + 1, Len(s)) = suffix

\* os.path.join(directory_path, f): an absolute f replaces d; a separator is
\* put between the two unless d is empty or ends with one
JoinPath(d, f) ==
    IF f # <<>> /\ Head(f) = "/" THEN f
    ELSE IF d = <<>> \/ d[Len(d)] = "/" THEN d \o f
    ELSE d \o <<"/">> \o f

\* the directories tried: the other entries and the first n .wav entries
Listings == {OtherEntries \o [i \in 1..n |-> WavEntry(i)] : n \in 0..NumFiles}

\* lines 135-139: the list comprehension over os.listdir
RECURSIVE WavPaths(_, _)
WavPaths(d, entries) ==
    IF entries = <<>> THEN <<>>
    ELSE IF EndsWith(Head(entries), WavSuffix)
         THEN <<JoinPath(d, Head(entries))>> \o WavPaths(d, Tail(entries))
         ELSE WavPaths(d, Tail(entries))

AllPaths == {JoinPath(Dir, WavEntry(i)) : i \in 1..NumFiles}

\* StateManager.is_processed
IsProcessed(st, file_path) == file_path \in st

\* StateManager.mark_processed
MarkProcessed(st, file_path) == st \cup {file_path}

\* ProgressTracker(total, description)
ProgressTracker(total) == [total |-> total, done |-> 0]

\* ProgressTracker.update
ProgressUpdate(p) == [p EXCEPT !.done = @ + 1]

\* DirectoryAnalysisResults(directory_path)
DirectoryAnalysisResults == <<>>

\* DirectoryAnalysisResults.add_file_result: file_results[file_path] = result
AddFileResult(dr, file_path, result) ==
    [p \in DOMAIN dr \cup {file_path} |-> IF p = file_path THEN result ELSE dr[p]]

\* what a future holds: a returned FileAnalysisResults or a raised exception
NoResult == FileAnalysisResults(<<>>)
Pending == [raised |-> FALSE, value |-> NoResult, exc |-> ""]
Returned(fr) == [raised |-> FALSE, value |-> fr, exc |-> ""]
Raised(msg) == [raised |-> TRUE, value |-> NoResult, exc |-> msg]

\* the configuration the engine is run with: every metric enabled
BatchConfigs == {[m \in 1..BatchMetrics |-> TRUE]}

\* in the sequential path the first call that raises ends process, so one
\* raising call per file gives every result a set of them can give
BatchFaultSets ==
    {{}} \cup {{p} : p \in {q \in FaultPoints : /\ q.metric <= BatchMetrics
                                                /\ q.data < BatchChannels}}

Units == 1..Len(file_paths)

\* line 107: max_workers: int = 4
DefaultMaxWorkers == 4
\* the pool sizes the engine is constructed with: given, or the default
WorkerCounts == (1..MaxWorkers) \cup {DefaultMaxWorkers}

Init ==
    /\ listing \in Listings
    /\ store \in SUBSET AllPaths
    /\ storeFaulty \in BOOLEAN
    /\ force \in BOOLEAN
    /\ maxWorkers \in WorkerCounts
    /\ enabled \in BatchConfigs
    /\ run = 0
    /\ phase = "idle"
    /\ file_paths = <<>>
    /\ unit = <<>>
    /\ outcome = <<>>
    /\ engine = [pc |-> "idle", cur |-> 0]
    /\ results = DirectoryAnalysisResults
    /\ progress = ProgressTracker(0)
    /\ fate = <<>>
    /\ loads = <<>>
    /\ calcs = <<>>
    /\ storeErr = <<>>
    /\ marks = {}
    /\ startStore = store
    /\ prev = [valid |-> FALSE, fate |-> <<>>, store |-> {}, clean |-> TRUE]
    /\ pAudio = [file_path |-> ProcPath, channels |-> 1]
    /\ pParallel = FALSE
    /\ pRaises = {}
    /\ pIdx = 1
    /\ pFile = FileAnalysisResults(ProcPath)
    /\ pCalls = 0
    /\ pState = "returned"
    /\ pTried = <<>>
    /\ pMain = "none"
    /\ pChan = NoChannels
    /\ pMcr = MultiChannelResult
    /\ PPIdle

\* the state a file ended an invocation in
EndState(f) ==
    IF f = "skipped" THEN "Skipped" ELSE IF f = "ok" THEN "Completed" ELSE "Failed"

\* lines 132-143 with the StateManager emptied when force_reprocess is on
StartRunResetting ==
    /\ phase \in {"idle", "returned"}
    /\ run < MaxRuns
    /\ LET paths == WavPaths(Dir, listing)
           n == Len(paths)
       IN  /\ file_paths' = paths
           /\ progress' = ProgressTracker(n)
           /\ unit' = [i \in 1..n |-> "none"]
           /\ engine' = [pc |-> IF n = 0 THEN "wait" ELSE "submit", cur |-> 0]
           /\ outcome' = [i \in 1..n |-> Pending]
           /\ fate' = [i \in 1..n |-> "none"]
           /\ loads' = [i \in 1..n |-> 0]
           /\ calcs' = [i \in 1..n |-> 0]
           /\ storeErr' = [i \in 1..n |-> FALSE]
    /\ results' = DirectoryAnalysisResults
    /\ marks' = {}
    /\ store' = IF force THEN {} ELSE store
    /\ startStore' = store'
    /\ prev' = IF run = 0 THEN prev
               ELSE [valid |-> TRUE, fate |-> [i \in Units |-> EndState(fate[i])],
                     store |-> store, clean |-> \A i \in Units : ~storeErr[i]]
    /\ run' = run + 1
    /\ phase' = "running"
    /\ UNCHANGED <<listing, storeFaulty, force, maxWorkers, enabled, procVars, ppVars>>

\* lines 132-143: process_directory is called (again, on the same directory
\* and StateManager): the files are listed, the tracker, the results and the
\* pool are created; no file is submitted yet
StartRun ==
    /\ phase \in {"idle", "returned"}
    /\ run < MaxRuns
    /\ LET paths == WavPaths(Dir, listing)
           n == Len(paths)
       IN  /\ file_paths' = paths
           /\ progress' = ProgressTracker(n)
           /\ unit' = [i \in 1..n |-> "none"]
           /\ engine' = [pc |-> IF n = 0 THEN "wait" ELSE "submit", cur |-> 0]
           /\ outcome' = [i \in 1..n |-> Pending]
           /\ fate' = [i \in 1..n |-> "none"]
           /\ loads' = [i \in 1..n |-> 0]
           /\ calcs' = [i \in 1..n |-> 0]
           /\ storeErr' = [i \in 1..n |-> FALSE]
    /\ results' = DirectoryAnalysisResults
    /\ marks' = {}
    /\ startStore' = store
    /\ prev' = IF run = 0 THEN prev
               ELSE [valid |-> TRUE, fate |-> [i \in Units |-> EndState(fate[i])],
                     store |-> store, clean |-> \A i \in Units : ~storeErr[i]]
    /\ run' = run + 1
    /\ phase' = "running"
    /\ UNCHANGED <<listing, store, storeFaulty, force, maxWorkers, enabled, procVars, ppVars>>

\* lines 144-149: one executor.submit call of the comprehension, for the
\* next file of file_paths; the pool's threads run while the others are
\* submitted; after the last one the as_completed loop of line 150 begins
Submit(i) ==
    /\ phase = "running"
    /\ engine.pc = "submit"
    /\ unit[i] = "none"
    /\ \A j \in Units : j < i => unit[j] # "none"
    /\ unit' = [unit EXCEPT ![i] = "queued"]
    /\ engine' = [pc |-> IF i = Len(file_paths) THEN "wait" ELSE "submit", cur |-> 0]
    /\ UNCHANGED <<listing, store, storeFaulty, force, maxWorkers, enabled, run,
                   phase, file_paths, outcome, results, progress, fate,
                   loads, calcs, storeErr, marks, startStore, prev, procVars, ppVars>>

\* a pool that starts a queued unit whether or not a worker is free
WorkerStartUnbounded(i) ==
    /\ phase = "running"
    /\ unit[i] = "queued"
    /\ \A j \in Units : j < i => unit[j] # "queued"
    /\ unit' = [unit EXCEPT ![i] = "check"]
    /\ UNCHANGED <<listing, store, storeFaulty, force, maxWorkers, enabled, run,
                   phase, file_paths, outcome, engine, results, progress, fate,
                   loads, calcs, storeErr, marks, startStore, prev, procVars, ppVars>>

\* ThreadPoolExecutor(max_workers): a free worker takes the oldest queued unit
WorkerStart(i) ==
    /\ phase = "running"
    /\ unit[i] = "queued"
    /\ \A j \in Units : j < i => unit[j] # "queued"
    /\ Cardinality({j \in Units : unit[j] \in {"check", "work"}}) < maxWorkers
    /\ unit' = [unit EXCEPT ![i] = "check"]
    /\ UNCHANGED <<listing, store, storeFaulty, force, maxWorkers, enabled, run,
                   phase, file_paths, outcome, engine, results, progress, fate,
                   loads, calcs, storeErr, marks, startStore, prev, procVars, ppVars>>

\* line 118 without the test of force_reprocess
SkipsIgnoringForce(st, file_path, force_reprocess) == IsProcessed(st, file_path)

\* line 118 asking whether any file at all is marked
SkipsWhenAnyMarked(st, file_path, force_reprocess) == st # {} /\ ~force_reprocess

\* line 118: the skip decision
Skips(st, file_path, force_reprocess) ==
    IsProcessed(st, file_path) /\ ~force_reprocess

\* lines 118-120 of _process_file
WorkerCheck(i) ==
    /\ phase = "running"
    /\ unit[i] = "check"
    /\ \/ /\ Skips(store, file_paths[i], force)
          /\ unit' = [unit EXCEPT ![i] = "finished"]
          /\ outcome' = [outcome EXCEPT ![i] = Returned(FileAnalysisResults(file_paths[i]))]
          /\ fate' = [fate EXCEPT ![i] = "skipped"]
          /\ UNCHANGED storeErr
       \/ /\ ~Skips(store, file_paths[i], force)
          /\ unit' = [unit EXCEPT ![i] = "work"]
          /\ UNCHANGED <<outcome, fate, storeErr>>
       \/ /\ storeFaulty
          /\ unit' = [unit EXCEPT ![i] = "finished"]
          /\ outcome' = [outcome EXCEPT ![i] = Raised("store")]
          /\ fate' = [fate EXCEPT ![i] = "store_error"]
          /\ storeErr' = [storeErr EXCEPT ![i] = TRUE]
    /\ UNCHANGED <<listing, store, storeFaulty, force, maxWorkers, enabled, run,
                   phase, file_paths, engine, results, progress,
                   loads, calcs, marks, startStore, prev, procVars, ppVars>>

\* lines 128-130 without add_error
ErrorResultWithoutError(file_path, msg) == FileAnalysisResults(file_path)

\* lines 126-130: the error-only result of a file whose processing raised
ErrorResult(file_path, msg) == AddError(FileAnalysisResults(file_path), msg)

\* line 146 passing True for parallel_channels
ParallelChannelsOn == TRUE

\* line 146: the fourth argument of _process_file, parallel_channels, is the
\* literal False; line 124 hands it to process as parallel
ParallelChannelsArg == FALSE

\* lines 122-130 run as a task of its own submitted to the pool the unit is
\* running in: it goes on only when that pool has a free worker
WorkerWorkNeedsSlot(i) ==
    /\ phase = "running"
    /\ unit[i] = "work"
    /\ Cardinality({j \in Units : unit[j] \in {"check", "work"}}) < maxWorkers
    /\ loads' = [loads EXCEPT ![i] = @ + 1]
    /\ \/ /\ outcome' = [outcome EXCEPT ![i] = Returned(ErrorResult(file_paths[i], "load"))]
          /\ fate' = [fate EXCEPT ![i] = "load_failed"]
          /\ UNCHANGED calcs
       \/ \E k \in 1..BatchChannels, raises \in BatchFaultSets :
            LET audio_data == [file_path |-> file_paths[i], channels |-> k]
                r == Process(enabled, audio_data, ParallelChannelsArg, raises)
            IN  /\ outcome' = [outcome EXCEPT ![i] = Returned(r.file_results)]
                /\ fate' = [fate EXCEPT ![i] = IF r.aborted THEN "aborted" ELSE "ok"]
                /\ calcs' = [calcs EXCEPT ![i] = @ + r.calls]
    /\ unit' = [unit EXCEPT ![i] = "finished"]
    /\ UNCHANGED <<listing, store, storeFaulty, force, maxWorkers, enabled, run,
                   phase, file_paths, engine, results, progress,
                   storeErr, marks, startStore, prev, procVars, ppVars>>

\* lines 122-130 of _process_file: load the signal and process it
WorkerWork(i) ==
    /\ phase = "running"
    /\ unit[i] = "work"
    /\ loads' = [loads EXCEPT ![i] = @ + 1]
    /\ \/ /\ outcome' = [outcome EXCEPT ![i] = Returned(ErrorResult(file_paths[i], "load"))]
          /\ fate' = [fate EXCEPT ![i] = "load_failed"]
          /\ UNCHANGED calcs
       \/ \E k \in 1..BatchChannels, raises \in BatchFaultSets :
            LET audio_data == [file_path |-> file_paths[i], channels |-> k]
                r == Process(enabled, audio_data, ParallelChannelsArg, raises)
            IN  /\ outcome' = [outcome EXCEPT ![i] = Returned(r.file_results)]
                /\ fate' = [fate EXCEPT ![i] = IF r.aborted THEN "aborted" ELSE "ok"]
                /\ calcs' = [calcs EXCEPT ![i] = @ + r.calls]
    /\ unit' = [unit EXCEPT ![i] = "finished"]
    /\ UNCHANGED <<listing, store, storeFaulty, force, maxWorkers, enabled, run,
                   phase, file_paths, engine, results, progress,
                   storeErr, marks, startStore, prev, procVars, ppVars>>

\* progress_tracker.update() at the end of the try body instead of in finally
FinallyOnlyOnSuccess(p, excepted) == IF excepted THEN p ELSE ProgressUpdate(p)

\* lines 163-164: finally: progress_tracker.update(), whether or not the
\* body of the try raised
Finally(p, excepted) == ProgressUpdate(p)

\* lines 160-162 without add_file_result
RecordErrorDropped(dr, file_path, msg) == dr

\* lines 160-162: the error-only result replaces or becomes the file's entry
RecordError(dr, file_path, msg) ==
    AddFileResult(dr, file_path, ErrorResult(file_path, msg))

\* line 155 guarded by the result carrying no error
MarkOnlyWithoutError(st, file_path, result) ==
    IF result.errors = <<>> THEN MarkProcessed(st, file_path) ELSE st

\* line 155 with the store overwritten by the file just handled
MarkReturnedReplacing(st, file_path, result) == {file_path}

\* line 155: mark_processed follows add_file_result for every result returned
MarkReturned(st, file_path, result) == MarkProcessed(st, file_path)

\* lines 150-155 without add_file_result at line 154
EngineRecordWithoutAdd(i) ==
    /\ phase = "running"
    /\ engine.pc = "wait"
    /\ unit[i] = "finished"
    /\ IF outcome[i].raised
       THEN /\ results' = RecordError(results, file_paths[i], outcome[i].exc)
            /\ progress' = Finally(progress, TRUE)
            /\ unit' = [unit EXCEPT ![i] = "handled"]
            /\ engine' = [pc |-> "wait", cur |-> 0]
       ELSE /\ engine' = [pc |-> "mark", cur |-> i]
            /\ UNCHANGED <<results, progress, unit>>
    /\ UNCHANGED <<listing, store, storeFaulty, force, maxWorkers, enabled, run,
                   phase, file_paths, outcome, fate,
                   loads, calcs, storeErr, marks, startStore, prev, procVars, ppVars>>

\* lines 150-154: as_completed yields a finished future and its result is
\* recorded; if future.result() raises, lines 156-164: the error-only result
\* is recorded and the tracker updated
EngineRecord(i) ==
    /\ phase = "running"
    /\ engine.pc = "wait"
    /\ unit[i] = "finished"
    /\ IF outcome[i].raised
       THEN /\ results' = RecordError(results, file_paths[i], outcome[i].exc)
            /\ progress' = Finally(progress, TRUE)
            /\ unit' = [unit EXCEPT ![i] = "handled"]
            /\ engine' = [pc |-> "wait", cur |-> 0]
       ELSE /\ results' = AddFileResult(results, file_paths[i], outcome[i].value)
            /\ engine' = [pc |-> "mark", cur |-> i]
            /\ UNCHANGED <<progress, unit>>
    /\ UNCHANGED <<listing, store, storeFaulty, force, maxWorkers, enabled, run,
                   phase, file_paths, outcome, fate,
                   loads, calcs, storeErr, marks, startStore, prev, procVars, ppVars>>

\* line 155: state_manager.mark_processed(file_path), then lines 163-164;
\* if mark_processed raises, lines 156-164
EngineMark ==
    /\ phase = "running"
    /\ engine.pc = "mark"
    /\ \/ /\ store' = MarkReturned(store, file_paths[engine.cur],
                                     outcome[engine.cur].value)
          /\ marks' = marks \cup {file_paths[engine.cur]}
          /\ progress' = Finally(progress, FALSE)
          /\ UNCHANGED <<results, storeErr>>
       \/ /\ storeFaulty
          /\ results' = RecordError(results, file_paths[engine.cur], "store")
          /\ storeErr' = [storeErr EXCEPT ![engine.cur] = TRUE]
          /\ progress' = Finally(progress, TRUE)
          /\ UNCHANGED <<store, marks>>
    /\ unit' = [unit EXCEPT ![engine.cur] = "handled"]
    /\ engine' = [pc |-> "wait", cur |-> 0]
    /\ UNCHANGED <<listing, storeFaulty, force, maxWorkers, enabled, run,
                   phase, file_paths, outcome, fate,
                   loads, calcs, startStore, prev, procVars, ppVars>>

\* lines 150-166 with the loop left at the first error-only result recorded
ReturnOnFirstFailure ==
    /\ phase = "running"
    /\ engine.pc = "wait"
    /\ \/ \A i \in Units : unit[i] = "handled"
       \/ \E i \in Units : /\ unit[i] = "handled"
                            /\ results[file_paths[i]].errors # <<>>
    /\ phase' = "returned"
    /\ engine' = [pc |-> "idle", cur |-> 0]
    /\ UNCHANGED <<listing, store, storeFaulty, force, maxWorkers, enabled, run,
                   file_paths, unit, outcome, results, progress, fate,
                   loads, calcs, storeErr, marks, startStore, prev, procVars, ppVars>>

\* line 166: every future was yielded, the pool is shut down, the results
\* are returned
Return ==
    /\ phase = "running"
    /\ engine.pc = "wait"
    /\ \A i \in Units : unit[i] = "handled"
    /\ phase' = "returned"
    /\ engine' = [pc |-> "idle", cur |-> 0]
    /\ UNCHANGED <<listing, store, storeFaulty, force, maxWorkers, enabled, run,
                   file_paths, unit, outcome, results, progress, fate,
                   loads, calcs, storeErr, marks, startStore, prev, procVars, ppVars>>

Next ==
    \/ StartRun
    \/ \E i \in Units : Submit(i)
    \/ \E i \in Units : WorkerStart(i)
    \/ \E i \in Units : WorkerCheck(i)
    \/ \E i \in Units : WorkerWork(i)
    \/ \E i \in Units : EngineRecord(i)
    \/ EngineMark
    \/ Return

Spec == Init /\ [][Next]_vars

\* a step of the pool's workers or of the thread of process_directory
RunStep ==
    \/ \E i \in Units : Submit(i)
    \/ \E i \in Units : WorkerStart(i)
    \/ \E i \in Units : WorkerCheck(i)
    \/ \E i \in Units : WorkerWork(i)
    \/ \E i \in Units : EngineRecord(i)
    \/ EngineMark
    \/ Return

\* the threads are scheduled: while some thread of a run can take a step,
\* one eventually does (every load and every computation returns or raises);
\* nothing obliges the caller to invoke process_directory again
SpecFair == Spec /\ WF_vars(RunStep)


\* -------------------------------------------------------------- SpecPP
PPStages == {"none", "load", "calibrate", "metrics"}

\* lines 73-83 with the except clause returning instead of raising again
LoadAnalyseSwallowing(wav_file, fail) == [raised |-> FALSE, value |-> wav_file]

\* load_analyse_binaural, lines 73-83: from_wav, the levels and calibrate_to,
\* process_all_metrics; what one of them raises is logged and raised again
LoadAnalyseBinaural(wav_file, fail) ==
    IF fail = "none"
    THEN [raised |-> FALSE, value |-> wav_file]
    ELSE [raised |-> TRUE, value |-> 0]

\* line 144: results_df = add_results(results_df, result), when add_results
\* returns: results_df is then made of what it was made of and of result.
\* What add_results does with the rows is not part of the model.
AddResults(df, result) == df \cup {result}

\* pbar.update(1) at the end of the try body instead of in finally
PbarOnlyOnSuccess(bar, excepted) ==
    IF excepted THEN bar ELSE [bar EXCEPT !.n = @ + 1]

\* lines 147-148: finally: pbar.update(1)
PbarUpdate(bar, excepted) == [bar EXCEPT !.n = @ + 1]

PPFutures == 1..Len(ppFuture)

\* parallel_process is called (line 120) with any list of files, table and
\* pool size; each file's analysis returns or raises at one of its stages
PPInit ==
    /\ BatchIdle
    /\ enabled = [m \in 1..BatchMetrics |-> TRUE]
    /\ pAudio = [file_path |-> ProcPath, channels |-> 1]
    /\ pParallel = FALSE
    /\ pRaises = {}
    /\ pIdx = 1
    /\ pFile = FileAnalysisResults(ProcPath)
    /\ pCalls = 0
    /\ pState = "returned"
    /\ pTried = <<>>
    /\ pMain = "none"
    /\ pChan = NoChannels
    /\ pMcr = MultiChannelResult
    /\ ppN \in 0..NumFiles
    /\ ppWorkers \in 1..MaxWorkers
    /\ ppFail \in [1..ppN -> PPStages]
    /\ ppInitial \in {{}, {0}}
    /\ ppTable = ppInitial
    /\ ppFuture = <<>>
    /\ ppMain = "submit"
    /\ ppHandled = {}
    /\ ppBar = [total |-> 0, n |-> 0]

\* lines 127-136: the next file is submitted
PPSubmit ==
    /\ ppMain = "submit"
    /\ Len(ppFuture) < ppN
    /\ ppFuture' = Append(ppFuture, "queued")
    /\ UNCHANGED <<batchVars, enabled, procVars, ppN, ppWorkers, ppFail,
                   ppInitial, ppTable, ppMain, ppHandled, ppBar>>

\* lines 138-141: every file is submitted; the bar is created with
\* total=len(futures) and the loop over as_completed begins
PPOpenBar ==
    /\ ppMain = "submit"
    /\ Len(ppFuture) = ppN
    /\ ppBar' = [total |-> Len(ppFuture), n |-> 0]
    /\ ppMain' = "collect"
    /\ UNCHANGED <<batchVars, enabled, procVars, ppN, ppWorkers, ppFail,
                   ppInitial, ppTable, ppFuture, ppHandled>>

\* ProcessPoolExecutor(max_workers): a free worker process takes the oldest
\* queued call
PPWorkerStart(i) ==
    /\ ppFuture[i] = "queued"
    /\ \A j \in PPFutures : j < i => ppFuture[j] # "queued"
    /\ Cardinality({j \in PPFutures : ppFuture[j] = "running"}) < ppWorkers
    /\ ppFuture' = [ppFuture EXCEPT ![i] = "running"]
    /\ UNCHANGED <<batchVars, enabled, procVars, ppN, ppWorkers, ppFail,
                   ppInitial, ppTable, ppMain, ppHandled, ppBar>>

\* load_analyse_binaural on a worker process returns or raises
PPWorkerRun(i) ==
    /\ ppFuture[i] = "running"
    /\ ppFuture' = [ppFuture EXCEPT ![i] =
                       IF LoadAnalyseBinaural(i, ppFail[i]).raised
                       THEN "raised" ELSE "done"]
    /\ UNCHANGED <<batchVars, enabled, procVars, ppN, ppWorkers, ppFail,
                   ppInitial, ppTable, ppMain, ppHandled, ppBar>>

\* lines 141-148: as_completed yields a finished future; its result is
\* merged, or add_results raises inside the try and results_df keeps its
\* value, or future.result() raises the exception of the call; lines 145-146
\* log what was raised; the bar is updated
PPCollect(i) ==
    /\ ppMain = "collect"
    /\ i \notin ppHandled
    /\ ppFuture[i] \in {"done", "raised"}
    /\ \/ /\ ppFuture[i] = "done"
          /\ ppTable' = AddResults(ppTable, LoadAnalyseBinaural(i, ppFail[i]).value)
          /\ ppBar' = PbarUpdate(ppBar, FALSE)
       \/ /\ ppFuture[i] = "done"
          /\ ppTable' = ppTable
          /\ ppBar' = PbarUpdate(ppBar, TRUE)
       \/ /\ ppFuture[i] = "raised"
          /\ ppTable' = ppTable
          /\ ppBar' = PbarUpdate(ppBar, TRUE)
    /\ ppHandled' = ppHandled \cup {i}
    /\ UNCHANGED <<batchVars, enabled, procVars, ppN, ppWorkers, ppFail,
                   ppInitial, ppFuture, ppMain>>

\* lines 150-154: every future was yielded, the bar and the pool are closed,
\* results_df is returned
PPReturn ==
    /\ ppMain = "collect"
    /\ ppHandled = PPFutures
    /\ ppMain' = "returned"
    /\ UNCHANGED <<batchVars, enabled, procVars, ppN, ppWorkers, ppFail,
                   ppInitial, ppTable, ppFuture, ppHandled, ppBar>>

PPNext ==
    \/ PPSubmit
    \/ PPOpenBar
    \/ \E i \in PPFutures : PPWorkerStart(i)
    \/ \E i \in PPFutures : PPWorkerRun(i)
    \/ \E i \in PPFutures : PPCollect(i)
    \/ PPReturn

SpecPP == PPInit /\ [][PPNext]_vars


\* -------------------------------------------------------------- claims
PathOf(i) == file_paths[i]
Handled(i) == unit[i] = "handled"
AtReturn == phase = "returned"
IsErrorOnly(fr) == fr.metrics = <<>> /\ fr.errors # <<>>
IsEmpty(fr) == fr.metrics = <<>> /\ fr.errors = <<>>
EnabledMetrics == {m \in DOMAIN enabled : enabled[m]}
IsFullSuccess(fr) ==
    /\ fr.errors = <<>>
    /\ DOMAIN fr.metrics = EnabledMetrics
    /\ \A m \in DOMAIN fr.metrics : Len(fr.metrics[m]) >= 1

\* C1: a file whose load failed (from_wav raised) is recorded with an
\* error-only FileAnalysisResults and mark_processed is not applied to it.
C1_LoadFailureNotMarked ==
    \A i \in Units :
        (Handled(i) /\ fate[i] = "load_failed" /\ ~storeErr[i]) =>
            /\ PathOf(i) \in DOMAIN results
            /\ IsErrorOnly(results[PathOf(i)])
            /\ PathOf(i) \notin marks

\* C2: in a second invocation on the same directory and StateManager, with
\* force_reprocess off, every file that ended Failed in the first invocation
\* is loaded again and every file that ended Completed is not.
C2_FailedRetriedNextRun ==
    (AtReturn /\ prev.valid /\ prev.clean /\ ~force) =>
        \A i \in Units :
            ~storeErr[i] =>
                /\ prev.fate[i] = "Failed" => loads[i] = 1
                /\ prev.fate[i] = "Completed" => loads[i] = 0

\* a FileAnalysisResults that carries a skip marker; line 120 builds the
\* skipped file's result from the file path alone, as lines 46 and 128 do
IsMarkedSkipped(fr) == "skipped" \in DOMAIN fr

\* C3 as stated: with force_reprocess off, a file marked complete when the
\* invocation starts is not loaded, has no entry in the returned results or
\* one explicitly marked skipped, and stays marked; a file not marked is
\* loaded once.
C3_SkippedEntryAbsent ==
    (AtReturn /\ ~force) =>
        \A i \in Units :
            ~storeErr[i] =>
                IF PathOf(i) \in startStore
                THEN /\ loads[i] = 0 /\ calcs[i] = 0
                     /\ \/ PathOf(i) \notin DOMAIN results
                        \/ IsMarkedSkipped(results[PathOf(i)])
                     /\ PathOf(i) \in store
                ELSE loads[i] = 1 /\ PathOf(i) \in DOMAIN results

\* C4 as stated: at return the results hold an entry for exactly the files
\* that were dispatched (not skipped), and none for a skipped file.
C4_NoEntryForSkipped ==
    AtReturn => DOMAIN results = {PathOf(i) : i \in {j \in Units : fate[j] # "skipped"}}

\* C5: process_directory returns with exactly one entry per enumerated file;
\* the entry of a file whose load failed carries only an error, and the entry
\* of every file that was loaded and whose metrics all computed is a full
\* success, for every completion order and worker count.
C5_BatchFailureIsolation ==
    /\ (phase = "running" /\ engine.pc = "wait" /\ \A i \in Units : Handled(i))
           => ENABLED Return
    /\ AtReturn =>
        /\ Cardinality(DOMAIN results) = Len(file_paths)
        /\ \A i \in Units :
            ~storeErr[i] =>
                /\ fate[i] = "load_failed" => IsErrorOnly(results[PathOf(i)])
                /\ fate[i] = "ok" => IsFullSuccess(results[PathOf(i)])

\* a run of two files has returned, one failed to load, the other succeeded
C5_Witness ==
    /\ AtReturn
    /\ \E i, j \in Units :
        /\ fate[i] = "load_failed" /\ ~storeErr[i]
        /\ fate[j] = "ok" /\ ~storeErr[j]
        /\ IsFullSuccess(results[PathOf(j)])

\* the calls of metric m that are reached for a signal and can raise
RaisesIn(m, audio_data, raises) ==
    \E p \in raises :
        /\ p.metric = m
        /\ p.stage = "calculate" => p.data < audio_data.channels

\* C6: sequential path, M1, M2, M3 enabled, M2 raises and M1 does not: the
\* returned FileAnalysisResults contains M1's result, an error entry for M2's
\* failure, and no entry for M3.
C6_FailedMetricLeavesError ==
    (/\ pState = "returned"
     /\ ~UsesParallelPath(pParallel, pAudio.channels)
     /\ Len(enabled) >= 3
     /\ \A m \in 1..3 : enabled[m]
     /\ ~RaisesIn(1, pAudio, pRaises)
     /\ RaisesIn(2, pAudio, pRaises)) =>
        /\ 1 \in DOMAIN pFile.metrics
        /\ pFile.errors # <<>>
        /\ 3 \notin DOMAIN pFile.metrics

\* C7: a second invocation on the same directory and StateManager, with
\* force_reprocess off and no StateManager error in the first, performs no
\* load and no metric computation, and leaves the set of marked files as the
\* first invocation left it.
C7_SecondCallSkipsAll ==
    (phase # "idle" /\ prev.valid /\ prev.clean /\ ~force) =>
        /\ \A i \in Units : loads[i] = 0 /\ calcs[i] = 0
        /\ store = prev.store

\* the second invocation has returned after a first one in which a file was
\* processed and another failed to load
C7_Witness ==
    /\ AtReturn /\ prev.valid /\ prev.clean /\ ~force
    /\ \E i, j \in Units : prev.fate[i] = "Completed" /\ prev.fate[j] = "Failed"

\* C8: with force_reprocess set, a file already marked complete is loaded
\* and processed again, its entry is the result this run's unit returned,
\* and it remains marked complete whatever that result is.
C8_ForceReprocess ==
    \A i \in Units :
        (force /\ PathOf(i) \in startStore /\ Handled(i)) =>
            /\ PathOf(i) \in store
            /\ ~storeErr[i] =>
                /\ loads[i] = 1
                /\ fate[i] \in {"ok", "aborted", "load_failed"}
                /\ results[PathOf(i)] = outcome[i].value

\* a marked file was recomputed under force_reprocess, another failed to load
C8_Witness ==
    /\ AtReturn /\ force
    /\ \E i, j \in Units :
        /\ PathOf(i) \in startStore /\ fate[i] = "ok" /\ ~storeErr[i]
        /\ IsFullSuccess(results[PathOf(i)])
        /\ PathOf(j) \in startStore /\ fate[j] = "load_failed"

\* C9: the tracker is created with total N = number of enumerated files and
\* count 0, the count only ever goes up by one, never exceeds N, equals the
\* number of files handled so far, and is N when process_directory returns.
C9_ProgressMonotone ==
    /\ [](phase # "idle" =>
            /\ progress.total = Len(file_paths)
            /\ progress.done \in 0..progress.total
            /\ progress.done = Cardinality({i \in Units : Handled(i)})
            /\ AtReturn => progress.done = progress.total)
    /\ [][\/ progress' = progress
          \/ progress' = [progress EXCEPT !.done = @ + 1]
          \/ /\ phase' = "running" /\ phase # "running"
             /\ progress' = [total |-> Len(file_paths'), done |-> 0]]_vars

\* a run of two files returned with N ticks, one per skipped, succeeded and
\* failed file
C9_Witness ==
    /\ AtReturn /\ progress.done = 2 /\ progress.total = 2
    /\ \E i, j \in Units : fate[i] = "skipped" /\ fate[j] \in {"load_failed", "store_error"}

\* the labels channel_1..channel_k
SequentialLabels(k) == [j \in 1..k |-> ChannelName(j - 1)]

\* C10: every MultiChannelResult recorded has exactly the entries "left",
\* "right" when parallel is set and the signal has two channels, and exactly
\* channel_1..channel_k in index order otherwise, each result labelled with
\* its entry's name; when nothing raises, every enabled metric is recorded.
C10_ChannelCompleteness ==
    /\ \A m \in DOMAIN pFile.metrics :
        /\ Labels(pFile.metrics[m]) =
              IF pParallel /\ pAudio.channels = 2
              THEN <<LeftName, RightName>>
              ELSE SequentialLabels(pAudio.channels)
        /\ \A j \in 1..Len(pFile.metrics[m]) :
              pFile.metrics[m][j].result.channel = pFile.metrics[m][j].name
    /\ (pState = "returned" /\ \A m \in EnabledMetrics : ~RaisesIn(m, pAudio, pRaises))
          => DOMAIN pFile.metrics = EnabledMetrics

\* process returned every enabled metric for a two-channel signal in the
\* parallel path
C10_Witness ==
    /\ pState = "returned" /\ pParallel /\ pAudio.channels = 2
    /\ Cardinality(EnabledMetrics) >= 2
    /\ DOMAIN pFile.metrics = EnabledMetrics

\* C11: a StateManager call that raises (is_processed or mark_processed)
\* ends the run: process_directory does not return its results, and the
\* error is not turned into the error-only entry of the file.
C11_StoreErrorFatal ==
    \A i \in Units :
        storeErr[i] =>
            /\ ~AtReturn
            /\ ~(/\ Handled(i)
                 /\ PathOf(i) \in DOMAIN results
                 /\ IsErrorOnly(results[PathOf(i)]))

\* C12: process_directory has returned only when every submitted unit has
\* finished, its result or error has been recorded and its iteration of the
\* loop is over; the step that returns is taken from such a state only,
\* whatever failed before.
C12_BlockingJoin ==
    /\ [](AtReturn =>
            /\ \A i \in Units : Handled(i) /\ PathOf(i) \in DOMAIN results
            /\ engine.pc = "idle")
    /\ [][(phase = "running" /\ phase' = "returned") =>
            \A i \in Units : /\ unit[i] = "handled"
                             /\ PathOf(i) \in DOMAIN results]_vars

\* a run of two files has returned, the first of them to be recorded having
\* failed
C12_Witness ==
    /\ AtReturn
    /\ \E i, j \in Units :
        /\ i # j
        /\ fate[i] = "load_failed" /\ IsErrorOnly(results[PathOf(i)])
        /\ fate[j] = "ok" /\ ~storeErr[j]

\* the state of the spec's per-file state machine a file is in: Discovered
\* when listed and not yet submitted, Dispatched while its unit of work is
\* submitted to the pool and not over, then the state it ended in
FileState(i) ==
    IF unit[i] = "none" THEN "Discovered"
    ELSE IF unit[i] \in {"queued", "check", "work"} THEN "Dispatched"
    ELSE EndState(fate[i])

AllowedMove(s, t) ==
    \/ s = t
    \/ s = "Discovered" /\ t \in {"Skipped", "Dispatched"}
    \/ s = "Dispatched" /\ t \in {"Completed", "Failed"}

\* C13: within one invocation every file moves only Discovered -> Skipped
\* or Discovered -> Dispatched -> (Completed | Failed) and stays there; it is
\* loaded at most once, not at all when skipped or not dispatched, and when
\* process_directory returns every file is Skipped, Completed or Failed.
C13_FileStateMachine ==
    /\ [](\A i \in Units :
            /\ loads[i] <= 1
            /\ FileState(i) \in {"Discovered", "Skipped"} => loads[i] = 0)
    /\ [](AtReturn =>
            \A i \in Units : FileState(i) \in {"Skipped", "Completed", "Failed"})
    /\ [][run' = run =>
            \A i \in Units : AllowedMove(FileState(i), FileState(i)')]_vars

\* C15: a file that process aborted because a metric raised has a non-empty
\* error list in its entry and is not marked processed.
C15_AbortedFileReportedFailed ==
    \A i \in Units :
        (Handled(i) /\ fate[i] = "aborted" /\ ~storeErr[i]) =>
            /\ results[PathOf(i)].errors # <<>>
            /\ PathOf(i) \notin marks

\* C16 as stated: with force_reprocess off, no unit of work of a file that
\* is marked complete is submitted to the pool or occupies a worker.
C16_SkippedNeverInPool ==
    \A i \in Units :
        (phase = "running" /\ ~force /\ PathOf(i) \in startStore) =>
            unit[i] \notin {"queued", "check", "work"}

\* ---- claims about PsychoacousticProcessor.process
IsEnabledMetric(m) == enabled[m]
\* the enabled metrics among the first n, in configuration order
EnabledSeq(n) == SelectSeq([m \in 1..n |-> m], IsEnabledMetric)
\* the enabled metrics one of whose reached calls raises
RaisingMetrics == {m \in EnabledMetrics : RaisesIn(m, pAudio, pRaises)}
FirstRaising == CHOOSE m \in RaisingMetrics : \A n \in RaisingMetrics : m <= n
TriedSet == {pTried[j] : j \in 1..Len(pTried)}

\* C14: process always ends by returning its FileAnalysisResults; when the
\* first raising metric raises in get_metric or configure, or in the
\* two-channel parallel path, process returns at that metric, no later
\* metric is resolved or recorded, and the results recorded before it are
\* all in the returned FileAnalysisResults; a recorded MultiChannelResult is
\* never changed or removed afterwards.
C14_AbortKeepsCompleted ==
    /\ [](/\ pState \in {"loop", "returned"}
          /\ pState = "loop" => ENABLED ProcNext)
    /\ []((/\ pState = "returned"
           /\ RaisingMetrics # {}
           /\ \/ ResolveRaises(FirstRaising, pRaises)
              \/ UsesParallelPath(pParallel, pAudio.channels)) =>
            /\ pIdx = FirstRaising
            /\ pTried = EnabledSeq(FirstRaising)
            /\ DOMAIN pFile.metrics = {m \in EnabledMetrics : m < FirstRaising}
            /\ pFile.file_path = pAudio.file_path)
    /\ [][\A m \in DOMAIN pFile.metrics :
            /\ m \in DOMAIN pFile'.metrics
            /\ pFile'.metrics[m] = pFile.metrics[m]]_vars

\* process returned after the right channel of the second of three metrics
\* raised in the parallel path: the first metric is recorded, the third not
C14_Witness ==
    /\ pState = "returned" /\ pParallel /\ pAudio.channels = 2
    /\ EnabledMetrics = {1, 2, 3}
    /\ pRaises = {Fault(2, "calculate", 1)}
    /\ DOMAIN pFile.metrics = {1}
    /\ Len(pFile.metrics[1]) = 2

\* C17: when process has returned, every metric that was resolved and
\* configured, so that its channels were attempted, has a MultiChannelResult
\* recorded under its name, with one entry per channel attempted.
C17_AttemptedMetricRecorded ==
    pState = "returned" =>
        \A m \in TriedSet :
            ~ResolveRaises(m, pRaises) =>
                /\ m \in DOMAIN pFile.metrics
                /\ Len(pFile.metrics[m]) \in 1..pAudio.channels

\* C18: in the sequential path, when only calculate calls raise, every
\* channel of every enabled metric is still computed and every enabled metric
\* is recorded with an entry for each channel.
C18_SequentialChannelIsolation ==
    (/\ pState = "returned"
     /\ ~UsesParallelPath(pParallel, pAudio.channels)
     /\ \A q \in pRaises : q.stage = "calculate") =>
        /\ DOMAIN pFile.metrics = EnabledMetrics
        /\ \A m \in DOMAIN pFile.metrics : Len(pFile.metrics[m]) = pAudio.channels
        /\ pCalls = Cardinality(EnabledMetrics) * pAudio.channels

\* C19: in the two-channel parallel path both calls are submitted to the
\* pool, the left one first, before process waits for a result or leaves
\* the block; while either of them is queued or running, process is inside
\* the with-block of that metric: the metric is not recorded, no next metric
\* is started and process has not returned, also when the other call has
\* raised; the with-block is left only when both calls are over; once a call
\* has raised and the block is left, process has returned and no later
\* metric is recorded.
C19_ParallelJoin ==
    /\ [](pMain = "submit_right" => pChan["left"] # "none" /\ pChan["right"] = "none")
    /\ [](pMain \notin {"none", "submit_right"} =>
            \A side \in Sides : pChan[side] # "none")
    /\ []((\E side \in Sides : pChan[side] \in {"queued", "running"}) =>
            /\ pMain # "none"
            /\ pState = "loop"
            /\ pIdx \notin DOMAIN pFile.metrics
            /\ pTried # <<>> /\ pTried[Len(pTried)] = pIdx)
    /\ []((pMain = "none" /\ \E side \in Sides : pChan[side] = "raised") =>
            /\ pState = "returned"
            /\ pTried[Len(pTried)] = pIdx
            /\ DOMAIN pFile.metrics = {m \in EnabledMetrics : m < pIdx})
    /\ [][(pMain # "none" /\ pMain' = "none") =>
            \A side \in Sides : pChan[side] \in {"done", "raised"}]_vars

\* the right call has raised while the left call is still running and
\* process waits for the left result
C19_Witness ==
    /\ pMain = "left_result"
    /\ pChan["right"] = "raised"
    /\ pChan["left"] = "running"
    /\ pState = "loop"

\* C20: the metrics resolved so far are the enabled metrics in configuration
\* order up to some point, a metric is resolved only when every metric
\* resolved before it is recorded, calculate is called for resolved metrics
\* only, and the recorded names are the resolved ones, but for the last while
\* it is in progress or when it failed: a prefix of the enabled metrics.
C20_EnabledPrefix ==
    /\ [](/\ \E n \in 0..Len(EnabledSeq(Len(enabled))) :
                pTried = SubSeq(EnabledSeq(Len(enabled)), 1, n)
          /\ \E n \in 0..Len(pTried) :
                /\ DOMAIN pFile.metrics = {pTried[j] : j \in 1..n}
                /\ Len(pTried) - n <= 1
          /\ \A m \in DOMAIN pFile.metrics : enabled[m]
          /\ pCalls <= Len(pTried) * pAudio.channels)
    /\ [][pTried' # pTried =>
            /\ \E m \in DOMAIN enabled : pTried' = Append(pTried, m)
            /\ DOMAIN pFile.metrics = TriedSet]_vars

\* process returned the first and third metric, the second being disabled
C20_Witness ==
    /\ pState = "returned"
    /\ enabled = <<TRUE, FALSE, TRUE>>
    /\ pTried = <<1, 3>>
    /\ DOMAIN pFile.metrics = {1, 3}
    /\ pCalls > 0

\* C21: at every moment of a run in which no StateManager call raises, the
\* store is what it was when the run started plus the files whose unit
\* completed successfully and has been handled by the engine: a worker
\* finishing changes nothing, and no other file is added.
C21_StoreMutatedOncePerSuccess ==
    (phase # "idle" /\ ~storeFaulty) =>
        store = startStore \cup {PathOf(i) : i \in {j \in Units : Handled(j) /\ fate[j] = "ok"}}

HandledUnits == {i \in Units : Handled(i)}

\* C22: whenever the engine is between two completions, having handled k of
\* them, the counter is k and the results hold exactly k entries, those of
\* the handled files; while it handles one (between add_file_result and the
\* tick) the results hold that file's entry too and the counter is still k.
C22_SerializedCompletions ==
    phase # "idle" =>
        /\ progress.done = Cardinality(HandledUnits)
        /\ engine.pc # "mark" =>
              /\ DOMAIN results = {PathOf(i) : i \in HandledUnits}
              /\ Cardinality(DOMAIN results) = Cardinality(HandledUnits)
        /\ engine.pc = "mark" =>
              /\ ~Handled(engine.cur)
              /\ DOMAIN results = {PathOf(i) : i \in HandledUnits \cup {engine.cur}}

\* with two workers, one completion has been handled while the other unit
\* has finished and waits to be handled
C22_Witness ==
    /\ phase = "running" /\ engine.pc = "wait" /\ maxWorkers = 2
    /\ progress.done = 1
    /\ \E i, j \in Units : Handled(i) /\ unit[j] = "finished"

\* C23: no step of the engine or of a worker, in any run, removes a file
\* path from the set marked processed: calling process_directory again
\* leaves the set as it is, and the only step that changes it is the
\* marking (line 155) of the unit whose returned result was just recorded,
\* which adds that unit's path and nothing else.
C23_StoreAppendOnly ==
    /\ [][store \subseteq store']_vars
    /\ [][run' # run => store' = store]_vars
    /\ [][store' # store =>
            /\ phase = "running" /\ engine.pc = "mark"
            /\ ~outcome[engine.cur].raised
            /\ PathOf(engine.cur) \in DOMAIN results
            /\ store' = store \cup {PathOf(engine.cur)}]_vars

\* a run with a skipped file has returned with more files marked than when
\* it started
C23_Witness ==
    /\ AtReturn
    /\ startStore # {} /\ startStore \subseteq store /\ store # startStore
    /\ \E i \in Units : fate[i] = "skipped"

\* the units a worker of the pool is executing
Executing == {i \in Units : unit[i] \in {"check", "work"}}

\* C24: at every moment at most max_workers units (4 when the engine was
\* constructed without the argument) are executing; a queued unit is started
\* only in a state where fewer than max_workers are executing; and every
\* queued unit is eventually started.
C24_BoundedPool ==
    /\ [](/\ Cardinality(Executing) <= maxWorkers
          /\ maxWorkers \in (1..MaxWorkers) \cup {4})
    /\ [][\A i \in Units :
            (run' = run /\ unit[i] = "queued" /\ unit'[i] # "queued") =>
                Cardinality(Executing) < maxWorkers]_vars
    /\ \A i \in 1..NumFiles :
          (i \in Units /\ unit[i] = "queued") ~> (i \in Units /\ unit[i] # "queued")

\* with one worker, the second unit waits in the queue while the first is
\* executing
C24_Witness ==
    /\ phase = "running" /\ maxWorkers = 1
    /\ \E i, j \in Units : unit[i] = "work" /\ unit[j] = "queued"

\* the entry process_directory records for a unit, given what its future
\* holds and whether mark_processed raised for it
ExpectedEntry(i) ==
    IF outcome[i].raised THEN ErrorResult(PathOf(i), outcome[i].exc)
    ELSE IF storeErr[i] THEN ErrorResult(PathOf(i), "store")
    ELSE outcome[i].value

\* C25: in whatever order the units complete and are handled, the entry of
\* every handled file is determined by what its own future holds, and the
\* store is the store at the start of the run plus the handled files whose
\* marking did not raise; so the returned entries and the final store do not
\* depend on the completion order.
C25_CompletionOrderIndependent ==
    phase # "idle" =>
        /\ \A i \in HandledUnits : results[PathOf(i)] = ExpectedEntry(i)
        /\ store = startStore \cup {PathOf(i) : i \in {j \in HandledUnits : ~storeErr[j]}}
        /\ AtReturn => DOMAIN results = {PathOf(i) : i \in Units}

\* the unit submitted second has been recorded and marked while the unit
\* submitted first has not been handled yet
C25_Witness ==
    /\ phase = "running"
    /\ \E i, j \in Units :
        /\ i < j
        /\ Handled(j) /\ fate[j] = "ok" /\ PathOf(j) \in marks
        /\ results[PathOf(j)] = outcome[j].value
        /\ unit[i] \in {"work", "finished"}

\* the name ends with the four characters ".wav"
IsWavName(e) ==
    /\ Len(e) >= 4
    /\ e[Len(e) - 3] = "." /\ e[Len(e) - 2] = "w"
    /\ e[Len(e) - 1] = "a" /\ e[Len(e)] = "v"
WavEntries == {k \in 1..Len(listing) : IsWavName(listing[k])}

\* C26: the files of a run are exactly the directory entries whose name ends
\* with ".wav", one unit each, and the tracker's total is their number; the
\* path of any other entry is no unit's path, has no entry in the results and
\* is never marked; a run on a directory without such an entry returns empty
\* results with no tick and leaves the store as it was.
C26_OnlyWavEligible ==
    phase # "idle" =>
        /\ Len(file_paths) = Cardinality(WavEntries)
        /\ progress.total = Cardinality(WavEntries)
        /\ \A k \in 1..Len(listing) :
              IF k \in WavEntries
              THEN \E i \in Units : PathOf(i) = JoinPath(Dir, listing[k])
              ELSE /\ \A i \in Units : PathOf(i) # JoinPath(Dir, listing[k])
                   /\ JoinPath(Dir, listing[k]) \notin DOMAIN results
                   /\ JoinPath(Dir, listing[k]) \notin marks
                   /\ JoinPath(Dir, listing[k]) \notin store
        /\ (AtReturn /\ WavEntries = {}) =>
              /\ results = DirectoryAnalysisResults
              /\ progress.done = 0
              /\ marks = {} /\ store = startStore

\* a run on a directory of two .wav files and three other entries has
\* returned two entries after two ticks
C26_Witness ==
    /\ AtReturn
    /\ Len(listing) = 5 /\ Cardinality(WavEntries) = 2
    /\ Cardinality(DOMAIN results) = 2 /\ progress.done = 2
    /\ Cardinality(marks) = 2

\* C27: _process_channel calls the metric's calculate once per segment and
\* returns the first segment's result with the channel name set; the channel
\* being one segment, a signal processed without a raise causes exactly
\* (enabled metrics) x (channels) calls of calculate, and every recorded
\* entry is the result computed from its own channel, labelled with its name.
C27_OncePerSegment ==
    /\ \A m \in 1..NumMetrics, d \in 0..(MaxChannels - 1) :
          LET c == ProcessChannel(m, d, ChannelName(d), {})
          IN  /\ ~c.raised
              /\ c.calls = Len(SegmentSignal(d))
              /\ c.value = [AnalyzeSegment(SegmentSignal(d)[1], m, {}).value
                               EXCEPT !.channel = ChannelName(d)]
    /\ (pState = "returned" /\ RaisingMetrics = {}) =>
          pCalls = Cardinality(EnabledMetrics) * pAudio.channels
    /\ \A m \in DOMAIN pFile.metrics :
          \A j \in 1..Len(pFile.metrics[m]) :
              pFile.metrics[m][j].result =
                  [channel |-> pFile.metrics[m][j].name, metric |-> m, data |-> j - 1]

\* three enabled metrics were computed on a three-channel signal without a
\* raise: nine calls of calculate
C27_Witness ==
    /\ pState = "returned" /\ RaisingMetrics = {}
    /\ pAudio.channels = 3 /\ EnabledMetrics = {1, 2, 3}
    /\ DOMAIN pFile.metrics = {1, 2, 3}
    /\ pCalls = 9

\* C28: while process_directory is running some thread of the run can
\* always take a step (no unit waits for a worker of the pool it runs in, no
\* state of the run is stuck), and, the threads being scheduled,
\* process_directory eventually returns, for every number of files up to
\* NumFiles, every worker count and every mix of failures.
C28_Termination ==
    /\ [](phase = "running" => ENABLED RunStep)
    /\ [](\A i \in Units : unit[i] = "work" => ENABLED WorkerWork(i))
    /\ (phase = "running") ~> (phase = "returned")

\* a run of two files on a single worker has returned although one file
\* failed to load and the marking of one raised
C28_Witness ==
    /\ AtReturn /\ maxWorkers = 1 /\ Len(file_paths) = 2
    /\ \E i, j \in Units : fate[i] = "load_failed" /\ storeErr[j]

\* C29: with force_reprocess off, whatever the engine has marked in the
\* meantime, a unit whose is_processed call did not raise is skipped exactly
\* when its file was marked at the start of the run, and goes on to load
\* exactly when it was not; at return the skipped files are the enumerated
\* files that were marked at the start.
C29_SkipDecisionRaceFree ==
    ~force =>
        /\ \A i \in Units :
              /\ unit[i] = "work" => PathOf(i) \notin startStore
              /\ fate[i] \notin {"none", "store_error"} =>
                    (fate[i] = "skipped" <=> PathOf(i) \in startStore)
        /\ (AtReturn /\ \A i \in Units : fate[i] # "store_error") =>
              {PathOf(i) : i \in {j \in Units : fate[j] = "skipped"}}
                  = {PathOf(i) : i \in Units} \cap startStore

\* the engine has marked one file of this run while the unit of another
\* file, not marked at the start, is at its is_processed test
C29_Witness ==
    /\ phase = "running" /\ ~force
    /\ \E i, j \in Units :
        /\ i # j
        /\ PathOf(i) \in marks /\ PathOf(i) \notin startStore
        /\ unit[j] = "check" /\ PathOf(j) \notin startStore

\* C30: a file marked by the current run has its unit handled and its entry
\* in the results; the step that marks it is taken when its unit has finished
\* and its result has been recorded.
C30_MarkAfterRecord ==
    /\ [](\A i \in Units :
            PathOf(i) \in marks => Handled(i) /\ PathOf(i) \in DOMAIN results)
    /\ [][\A i \in Units :
            (run' = run /\ PathOf(i) \in marks' /\ PathOf(i) \notin marks) =>
                /\ unit[i] = "finished"
                /\ engine = [pc |-> "mark", cur |-> i]
                /\ PathOf(i) \in DOMAIN results
                /\ results[PathOf(i)] = outcome[i].value]_vars

\* one file has been recorded and marked while the unit of the other is
\* still loading or processing
C30_Witness ==
    /\ phase = "running"
    /\ \E i, j \in Units :
        /\ PathOf(i) \in marks /\ Handled(i) /\ PathOf(i) \in DOMAIN results
        /\ unit[j] = "work" /\ PathOf(j) \notin marks

\* every MultiChannelResult of a FileAnalysisResults is labelled
\* channel_1..channel_k
SequentiallyLabelled(fr) ==
    \A m \in DOMAIN fr.metrics :
        /\ Labels(fr.metrics[m]) = SequentialLabels(Len(fr.metrics[m]))
        /\ \A j \in 1..Len(fr.metrics[m]) :
              fr.metrics[m][j].name \notin {LeftName, RightName}

\* C31: process_directory runs process with parallel off: whatever the
\* channel count of the signal a unit loads, the branch of the size-2 pool is
\* not taken, and in every result a unit returns and in every entry of the
\* results the channel entries are channel_1..channel_k, never "left" or
\* "right".
C31_BatchParallelOff ==
    /\ \A i \in Units :
          unit[i] = "work" =>
              \A k \in 1..BatchChannels : ~UsesParallelPath(ParallelChannelsArg, k)
    /\ \A i \in Units :
          (unit[i] \in {"finished", "handled"} /\ ~outcome[i].raised) =>
              SequentiallyLabelled(outcome[i].value)
    /\ \A p \in DOMAIN results : SequentiallyLabelled(results[p])

\* a run has returned the entry of a two-channel file, every metric of which
\* holds channel_1 and channel_2
C31_Witness ==
    /\ AtReturn
    /\ \E i \in Units :
        /\ fate[i] = "ok" /\ ~storeErr[i]
        /\ DOMAIN results[PathOf(i)].metrics = EnabledMetrics
        /\ \A m \in EnabledMetrics :
              Labels(results[PathOf(i)].metrics[m]) = <<ChannelName(0), ChannelName(1)>>

\* the files whose analysis raised nowhere
PPSucceeded == {i \in 1..ppN : ppFail[i] = "none"}

\* what lines 125-154 fix whatever add_results does: no future is handled
\* before every file is submitted; once the bar exists its total is the
\* number of files and update(1) has been called once per future handled;
\* add_results is applied at most once per file, to the results of handled
\* files whose analysis succeeded only, and results_df changes at no other
\* step; until it has returned parallel_process can always go on; and when
\* it has returned every file has completed and been handled.
ParallelProcessCollects ==
    /\ [](ppHandled # {} => Len(ppFuture) = ppN)
    /\ [](ppMain \in {"collect", "returned"} =>
            /\ Len(ppFuture) = ppN
            /\ ppBar.total = ppN
            /\ ppBar.n = Cardinality(ppHandled))
    /\ [](ppTable \subseteq ppInitial \cup (ppHandled \cap PPSucceeded))
    /\ [][\A i \in 1..ppN :
            (i \notin ppHandled /\ i \in ppHandled') =>
                /\ ppHandled' = ppHandled \cup {i}
                /\ ppBar'.n = ppBar.n + 1
                /\ ppTable' \in {ppTable, AddResults(ppTable, i)}
                /\ i \notin PPSucceeded => ppTable' = ppTable]_vars
    /\ [][ppHandled' = ppHandled => ppTable' = ppTable]_vars
    /\ [](ppMain \in {"submit", "collect"} => ENABLED PPNext)
    /\ [](ppMain = "returned" =>
            /\ \A i \in 1..ppN : ppFuture[i] \in {"done", "raised"}
            /\ ppHandled = 1..ppN
            /\ ppBar.n = ppN)

=============================================================================
